---- MODULE Spec2Model ----
(***************************************************************************)
(* GymAI backend: the workout store (WorkoutSession / Exercise / Set), the *)
(* CRUD endpoints, the step-wise committing log_workout endpoint,          *)
(* parse_workout with its validation loop, transcribe_audio, and the read  *)
(* of the history through get_workout_sessions.                            *)
(*                                                                         *)
(* Granularity.  Every db.commit() of a handler is one transaction and is  *)
(* one atomic step of the model.  The CRUD handlers hold a single commit   *)
(* and are one action each.  log_workout commits after the session, after  *)
(* the exercise and after every set, so it is a process whose position     *)
(* (pc) advances one commit at a time; invocations served by different     *)
(* workers interleave between commits.  The store enforces the foreign     *)
(* keys declared in models.py, and an expired ORM object is re-read after  *)
(* a commit, so a write under a parent row that has been deleted raises.   *)
(* Within the one process that start_backend.py starts, the event loop     *)
(* runs the body of one handler at a time (SpecLoop).                      *)
(***************************************************************************)
EXTENDS Integers, Sequences, FiniteSets, TLC

(***************************************************************************)
(* Bounds of the model.                                                    *)
(***************************************************************************)
MaxId == 4          \* rows ever inserted (ids are never issued twice)
MaxSets == 2        \* longest set list of a log_workout request
MaxText == 2        \* longest text (a request's text, a transcript), in characters

Procs == {"p1", "p2"}            \* concurrently served log_workout invocations
Users == {"u1", "u2"}
Callers == {"u1"}                \* the users that call log_workout
Names == {"Bench Press"}
LogNotes == {"leg day"}           \* notes of a log_workout request
NoNotes == "None"                 \* WorkoutSessionCreate.notes left at its default

NoId == 0           \* request.session_id absent (None)
BogusId == -1       \* a session id that no row ever had
EarlierId == -2     \* the id of a session created before the run starts
OtherId == -3       \* the id of another user's session created before the run starts

(***************************************************************************)
(* Decoded JSON values: a tag and a payload.  A float carries its value in *)
(* tenths (185.5 is FloatV(1855)); a bool carries 0 or 1.                  *)
(***************************************************************************)
Missing == [t |-> "missing", v |-> 0]
Null == [t |-> "null", v |-> 0]
StrV == [t |-> "str", v |-> 0]
IntV(n) == [t |-> "int", v |-> n]
FloatV(n) == [t |-> "float", v |-> n]
BoolV(b) == [t |-> "bool", v |-> b]

\* dict.get(key): an absent key reads as None
Get(val) == IF val.t = "missing" THEN Null ELSE val

\* dict.get(key, default)
GetDefault(val, default) == IF val.t = "missing" THEN default ELSE val

(***************************************************************************)
(* Column types of the sets table.                                         *)
(***************************************************************************)
\* Column(Integer): a bool is bound as 0/1
IntegerColumn(val) == IF val.t = "bool" THEN IntV(val.v) ELSE val

\* FloatColumn keeping whole numbers only
FloatColumnTruncating(val) ==
    CASE val.t = "int" -> FloatV(val.v * 10)
      [] val.t = "bool" -> FloatV(val.v * 10)
      [] val.t = "float" -> FloatV((val.v \div 10) * 10)
      [] OTHER -> val

\* Column(Float): an int is stored, and read back, as a float
FloatColumn(val) ==
    CASE val.t = "int" -> FloatV(val.v * 10)
      [] val.t = "bool" -> FloatV(val.v * 10)
      [] OTHER -> val

\* nullable=False on sets.set_number
NotNullViolation(val) == val.t = "null"

(***************************************************************************)
(* State.                                                                  *)
(***************************************************************************)
VARIABLES
    sessions,       \* rows of workout_sessions: [id, user_id, notes]
    exercises,      \* rows of exercises: [id, session_id, exercise_name]
    sets,           \* rows of sets: [id, exercise_id, set_number, reps, weight]
    nextId,         \* the number of primary keys issued so far, plus one
    inv,            \* per invocation of log_workout: position, request, locals
    parsed,         \* the parse_workout call of the pipeline: model output and answer
    openai,         \* the openai module: api_key, and the outbound calls made so far
    transcribed,    \* the transcribe_audio call of the pipeline: upload and answer
    client          \* a client of the API: the set it posts, the responses it has got

vars == <<sessions, exercises, sets, nextId, inv, parsed, openai, transcribed, client>>

IdUniverse == 1..MaxId

SessionIds == {s.id : s \in sessions}
ExerciseIds == {e.id : e \in exercises}
SetIds == {s.id : s \in sets}

\* the set dicts a log_workout caller sends (List[dict]: any keys, any values)
LogSetInputs ==
    { [set_number |-> IntV(2), reps |-> IntV(8), weight |-> IntV(185)],
      [set_number |-> Missing, reps |-> IntV(-1), weight |-> FloatV(1855)],
      [set_number |-> Null, reps |-> IntV(8), weight |-> Missing] }

\* the bodies a create_set caller sends (SetCreate: set_number is a required int)
SetCreateInputs ==
    { [set_number |-> IntV(2), reps |-> IntV(8), weight |-> IntV(185)] }

(***************************************************************************)
(* What the completion service answers to parse_workout, as json.loads     *)
(* sees it: text that does not decode, a JSON number, or a JSON object     *)
(* with or without the keys error, exercise_name and sets, and with or     *)
(* without a key the prompt did not ask for.  The entries of sets are JSON *)
(* objects.  The call may also raise instead of answering.                 *)
(***************************************************************************)
MaxParsedSets == 2  \* longest set list in a model output

ErrorReasons == {"Could not parse workout data", "Failed to parse AI response"}

ParsedSetInputs ==
    [set_number : {Missing, IntV(0), IntV(3), BoolV(1)},
     reps : {Missing, IntV(-1), IntV(8), BoolV(1), FloatV(80)},
     weight : {Missing, IntV(-1), FloatV(1855), BoolV(1)}]

Undecodable ==
    [kind |-> "undecodable", error |-> "absent", has_name |-> FALSE, has_sets |-> FALSE,
     extra |-> FALSE, sets |-> <<>>]

\* openai.ChatCompletion.create(...) raises
Raised == [Undecodable EXCEPT !.kind = "raised"]

\* no call was made
NoOutput == [Undecodable EXCEPT !.kind = "none"]

\* the lists of at most n elements of S
SeqsUpTo(S, n) == UNION {[1..m -> S] : m \in 0..n}

SetLists == SeqsUpTo(LogSetInputs, MaxSets)

\* a complete object with any set list, and every combination of keys with a short one
ModelOutputs ==
    {Undecodable, [Undecodable EXCEPT !.kind = "number"], Raised}
      \cup [kind : {"object"}, error : {"absent"}, has_name : {TRUE}, has_sets : {TRUE},
            extra : {FALSE}, sets : SeqsUpTo(ParsedSetInputs, MaxParsedSets)]
      \cup [kind : {"object"}, error : ErrorReasons \cup {"absent"}, has_name : BOOLEAN,
            has_sets : {TRUE}, extra : BOOLEAN, sets : SeqsUpTo(ParsedSetInputs, 1)]
      \cup [kind : {"object"}, error : ErrorReasons \cup {"absent"}, has_name : BOOLEAN,
            has_sets : {FALSE}, extra : BOOLEAN, sets : {<<>>}]

\* the answers tried where the text and the upload vary
VoiceOutputs ==
    {out \in ModelOutputs :
        out.sets \in {<<>>, <<[set_number |-> Missing, reps |-> IntV(8),
                               weight |-> FloatV(1855)]>>}}

\* LogWorkoutRequest
Requests ==
    [user_id : Callers, session_id : IdUniverse \cup {NoId, BogusId, EarlierId},
     exercise_name : Names, sets : SetLists, notes : LogNotes]

NoRequest ==
    [user_id |-> "u1", session_id |-> NoId, exercise_name |-> "Bench Press",
     sets |-> <<>>, notes |-> NoNotes]

Idle ==
    [pc |-> "idle", request |-> NoRequest, session_id |-> NoId, exercise_id |-> NoId,
     sets_created |-> <<>>, written |-> <<>>, status |-> 0]

(***************************************************************************)
(* Text: a sequence of characters, a blank or a letter.                    *)
(***************************************************************************)
Whitespace == {" "}
Chars == Whitespace \cup {"a"}
Texts == SeqsUpTo(Chars, MaxText)

\* str.lstrip()
RECURSIVE LStrip(_)
LStrip(text) ==
    IF text # <<>> /\ Head(text) \in Whitespace THEN LStrip(Tail(text)) ELSE text

\* str.rstrip()
RECURSIVE RStrip(_)
RStrip(text) ==
    IF text # <<>> /\ text[Len(text)] \in Whitespace
    THEN RStrip(SubSeq(text, 1, Len(text) - 1)) ELSE text

\* str.strip()
Strip(text) == RStrip(LStrip(text))

\* the text a client of the pipeline submits
PipelineText == <<"a">>

(***************************************************************************)
(* An upload to transcribe_audio: the declared content type (None, or a    *)
(* string cut into its type, the slash and its subtype), the number of     *)
(* bytes, and what the transcription service answers if it is called.      *)
(***************************************************************************)
NoContentType == [t |-> "none", v |-> <<>>]
ContentType(v) == [t |-> "str", v |-> v]
ContentTypes ==
    {NoContentType, ContentType(<<>>), ContentType(<<"audio", "/", "wav">>),
     ContentType(<<"text", "/", "plain">>), ContentType(<<"audio">>)}

\* str.startswith(prefix)
StartsWith(v, prefix) == Len(v) >= Len(prefix) /\ SubSeq(v, 1, Len(prefix)) = prefix

MaxBytes == 25 * 1024 * 1024
Sizes == {0, MaxBytes, MaxBytes + 1, 26 * 1024 * 1024}

\* openai.Audio.transcribe(...) returns the transcript or raises
Transcript(text) == [t |-> "text", v |-> text]
Unavailable == [t |-> "raised", v |-> <<>>]
Replies == {Transcript(text) : text \in Texts} \cup {Unavailable}

\* the module as main.py leaves it at import, with OPENAI_API_KEY set
Configured == [api_key |-> TRUE, transcriptions |-> 0, completions |-> 0]

\* no transcribe_audio call has been made
NotTranscribed ==
    [pc |-> "idle", content_type |-> NoContentType, size |-> 0, reply |-> Unavailable,
     status |-> 0, detail |-> "", text |-> <<>>]

\* GET /workout-sessions without the user_id parameter
NoUser == "None"                 \* the query parameter user_id left out
EmptyUser == ""                  \* the empty string given as a user id

\* no GET /workout-sessions has been answered
NoHistory == [pc |-> "idle", user_id |-> NoUser, result |-> {}]

\* no POST /log-workout has been answered
NoResponse == [session_id |-> NoId, exercise_id |-> NoId, sets_created |-> <<>>]

\* the set a client posts when nothing else is said
DefaultBody == [set_number |-> IntV(1), reps |-> IntV(8), weight |-> IntV(185)]

\* a client that has received nothing yet
NoClient == [body |-> DefaultBody, response |-> NoResponse, history |-> NoHistory]

\* no parse_workout call has been made
NotParsed ==
    [pc |-> "idle", text |-> <<>>, output |-> Undecodable, status |-> 0, detail |-> "",
     at |-> 0, sets |-> <<>>, logged |-> FALSE]

Init ==
    /\ sessions = {}
    /\ exercises = {}
    /\ sets = {}
    /\ nextId = 1
    /\ inv = [p \in Procs |-> Idle]
    /\ parsed = NotParsed
    /\ openai = Configured
    /\ transcribed = NotTranscribed
    /\ client = NoClient

(***************************************************************************)
(* Primary keys are uuid4 strings: opaque and never issued twice.  The     *)
(* model issues 1, 2, 3, ... in the order of the inserts.                  *)
(***************************************************************************)
uuid4 == nextId

(***************************************************************************)
(* Row constructors.                                                       *)
(***************************************************************************)
\* WorkoutSession(user_id=..., notes=...)
NewSession(id, user_id, notes) == [id |-> id, user_id |-> user_id, notes |-> notes]

\* Exercise(session_id=..., exercise_name=...)
NewExercise(id, session_id, name) ==
    [id |-> id, session_id |-> session_id, exercise_name |-> name]

\* Set(...) of create_set: the pydantic model supplies every field
NewSet(id, exercise_id, set_data) ==
    [id |-> id, exercise_id |-> exercise_id,
     set_number |-> IntegerColumn(set_data.set_number),
     reps |-> IntegerColumn(Get(set_data.reps)),
     weight |-> FloatColumn(Get(set_data.weight))]

\* LoggedSet numbering a set without set_number after the sets stored so far
LoggedSetCounting(id, exercise_id, set_data) ==
    [id |-> id, exercise_id |-> exercise_id,
     set_number |-> IntegerColumn(GetDefault(set_data.set_number,
                                             IntV(Cardinality({x \in sets : x.exercise_id = exercise_id}) + 1))),
     reps |-> IntegerColumn(Get(set_data.reps)),
     weight |-> FloatColumn(Get(set_data.weight))]

\* Set(...) of log_workout: set_number defaults to 1 when the key is absent
LoggedSet(id, exercise_id, set_data) ==
    [id |-> id, exercise_id |-> exercise_id,
     set_number |-> IntegerColumn(GetDefault(set_data.set_number, IntV(1))),
     reps |-> IntegerColumn(Get(set_data.reps)),
     weight |-> FloatColumn(Get(set_data.weight))]

(***************************************************************************)
(* ORM cascades (cascade="all, delete-orphan").                            *)
(***************************************************************************)
ExercisesOf(session_id) == {e \in exercises : e.session_id = session_id}
SetsOf(exercise_id) == {s \in sets : s.exercise_id = exercise_id}

(***************************************************************************)
(* The bound on the ids: an operation that would need more ids than are    *)
(* left, counting the rows that invocations in flight may still insert, is *)
(* not started.                                                            *)
(***************************************************************************)
\* rows an invocation in flight may still insert
Needs(p) ==
    LET n == Len(inv[p].request.sets)
    IN CASE inv[p].pc \in {"waiting", "resolve"} ->
              (IF inv[p].request.session_id = NoId THEN 1 ELSE 0) + 1 + n
         [] inv[p].pc = "exercise" -> 1 + n
         [] inv[p].pc = "sets" -> n - Len(inv[p].sets_created)
         [] OTHER -> 0

RECURSIVE SumNeeds(_)
SumNeeds(P) ==
    IF P = {} THEN 0
    ELSE LET p == CHOOSE q \in P : TRUE IN Needs(p) + SumNeeds(P \ {p})

Spare == (MaxId + 1 - nextId) - SumNeeds(Procs)

(***************************************************************************)
(* CRUD endpoints: one transaction each.  A 404 or a 500 leaves the store  *)
(* as it was.                                                              *)
(***************************************************************************)
create_workout_session(user_id, notes) ==
    /\ Spare >= 1
    /\ sessions' = sessions \cup {NewSession(uuid4, user_id, notes)}
    /\ nextId' = nextId + 1
    /\ UNCHANGED <<exercises, sets, inv>>
    /\ UNCHANGED <<parsed, openai, transcribed, client>>

create_exercise(session_id, name) ==
    /\ Spare >= 1
    /\ session_id \in SessionIds
    /\ exercises' = exercises \cup {NewExercise(uuid4, session_id, name)}
    /\ nextId' = nextId + 1
    /\ UNCHANGED <<sessions, sets, inv>>
    /\ UNCHANGED <<parsed, openai, transcribed, client>>

create_set(exercise_id, set_data) ==
    /\ Spare >= 1
    /\ exercise_id \in ExerciseIds
    /\ sets' = sets \cup {NewSet(uuid4, exercise_id, set_data)}
    /\ nextId' = nextId + 1
    /\ UNCHANGED <<sessions, exercises, inv>>
    /\ UNCHANGED <<parsed, openai, transcribed, client>>

\* delete_workout_session with the relationship cascade left out
delete_workout_session_no_cascade(session_id) ==
    /\ session_id \in SessionIds
    /\ sessions' = {s \in sessions : s.id # session_id}
    /\ UNCHANGED <<exercises, sets, nextId, inv>>
    /\ UNCHANGED <<parsed, openai, transcribed, client>>

\* db.delete(session): the ORM deletes the session's exercises and their sets with it
delete_workout_session(session_id) ==
    /\ session_id \in SessionIds
    /\ sessions' = {s \in sessions : s.id # session_id}
    /\ exercises' = exercises \ ExercisesOf(session_id)
    /\ sets' = {s \in sets : s.exercise_id \notin {e.id : e \in ExercisesOf(session_id)}}
    /\ UNCHANGED <<nextId, inv>>
    /\ UNCHANGED <<parsed, openai, transcribed, client>>

\* delete_exercise with the relationship cascade left out
delete_exercise_keep_sets(exercise_id) ==
    /\ exercise_id \in ExerciseIds
    /\ exercises' = {e \in exercises : e.id # exercise_id}
    /\ UNCHANGED <<sessions, sets, nextId, inv>>
    /\ UNCHANGED <<parsed, openai, transcribed, client>>

\* db.delete(exercise): the ORM deletes the exercise's sets with it
delete_exercise(exercise_id) ==
    /\ exercise_id \in ExerciseIds
    /\ exercises' = {e \in exercises : e.id # exercise_id}
    /\ sets' = sets \ SetsOf(exercise_id)
    /\ UNCHANGED <<sessions, nextId, inv>>
    /\ UNCHANGED <<parsed, openai, transcribed, client>>

delete_set(set_id) ==
    /\ set_id \in SetIds
    /\ sets' = {s \in sets : s.id # set_id}
    /\ UNCHANGED <<sessions, exercises, nextId, inv>>
    /\ UNCHANGED <<parsed, openai, transcribed, client>>

(***************************************************************************)
(* log_workout.  A commit either succeeds or raises (the store is          *)
(* unreachable, a constraint is violated) and then nothing of it is        *)
(* durable.                                                                *)
(***************************************************************************)
Outcomes == {"ok", "commit_failed"}

\* OwnedSession with the user_id filter left out
OwnedSessionAnyUser(session_id, user_id) == session_id \in SessionIds

\* db.query(WorkoutSession).filter(id == session_id, user_id == request.user_id).first()
OwnedSession(session_id, user_id) ==
    \E s \in sessions : s.id = session_id /\ s.user_id = user_id

\* ExerciseIdFor as a get-or-create on (session, name)
ExerciseIdMerged(session_id, name) ==
    LET same == {e \in exercises : e.session_id = session_id /\ e.exercise_name = name}
    IN IF same = {} THEN uuid4 ELSE (CHOOSE e \in same : TRUE).id

\* the id of the row db.add(exercise) inserts: always a fresh one
ExerciseIdFor(session_id, name) == uuid4

\* NextSetIndex stuck on the first entry
NextSetIndexFirst(done) == 1

\* the index into request.sets of the set created after `done` sets
NextSetIndex(done) == done + 1

Wrote(table, id) == [table |-> table, id |-> id]

\* Raise answering the caller at once, the except clause skipped
RaiseWithoutRollback(r, status) == [r EXCEPT !.pc = "close", !.status = status]

\* an exception leaves the try block: the except clause runs next
Raise(r, status) == [r EXCEPT !.pc = "rollback", !.status = status]

\* invocations are interchangeable: a new one takes the first free slot
Before(q, p) == q = "p1" /\ p = "p2"

\* the request arrives; Depends(get_db) opens the store session
Accept(p, req) ==
    /\ inv[p].pc = "idle"
    /\ \A q \in Procs : Before(q, p) => inv[q].pc # "idle"
    /\ req.session_id \in SessionIds \cup {NoId, BogusId}
    /\ Spare >= (IF req.session_id = NoId THEN 1 ELSE 0) + 1 + Len(req.sets)
    /\ inv' = [inv EXCEPT ![p] = [Idle EXCEPT !.pc = "resolve", !.request = req]]
    /\ UNCHANGED <<sessions, exercises, sets, nextId>>

\* a client posts a LogWorkoutRequest
log_workout_begin(p, req) ==
    /\ Accept(p, req)
    /\ UNCHANGED <<parsed, openai, transcribed, client>>

\* log_workout_resolve writing the request's notes into the session it was given
log_workout_resolve_renoting(p) ==
    LET r == inv[p]
        req == r.request
    IN /\ r.pc = "resolve"
       /\ IF req.session_id = NoId
          THEN \E o \in Outcomes :
                 IF o = "ok"
                 THEN /\ sessions' = sessions \cup {NewSession(uuid4, req.user_id, req.notes)}
                      /\ nextId' = nextId + 1
                      /\ inv' = [inv EXCEPT ![p] =
                           [r EXCEPT !.pc = "exercise", !.session_id = uuid4,
                                     !.written = Append(@, Wrote("session", uuid4))]]
                 ELSE /\ inv' = [inv EXCEPT ![p] = Raise(r, 500)]
                      /\ UNCHANGED <<sessions, nextId>>
          ELSE /\ inv' = [inv EXCEPT ![p] =
                    IF OwnedSession(req.session_id, req.user_id)
                    THEN [r EXCEPT !.pc = "exercise", !.session_id = req.session_id]
                    ELSE Raise(r, 404)]
               /\ sessions' = {IF s.id = req.session_id /\ s.user_id = req.user_id
                                THEN [s EXCEPT !.notes = req.notes] ELSE s : s \in sessions}
               /\ UNCHANGED nextId
       /\ UNCHANGED <<exercises, sets>>
       /\ UNCHANGED <<parsed, openai, transcribed, client>>

\* step 1: create the session, or verify that the given one belongs to the user
log_workout_resolve(p) ==
    LET r == inv[p]
        req == r.request
    IN /\ r.pc = "resolve"
       /\ IF req.session_id = NoId
          THEN \E o \in Outcomes :
                 IF o = "ok"
                 THEN /\ sessions' = sessions \cup {NewSession(uuid4, req.user_id, req.notes)}
                      /\ nextId' = nextId + 1
                      /\ inv' = [inv EXCEPT ![p] =
                           [r EXCEPT !.pc = "exercise", !.session_id = uuid4,
                                     !.written = Append(@, Wrote("session", uuid4))]]
                 ELSE /\ inv' = [inv EXCEPT ![p] = Raise(r, 500)]
                      /\ UNCHANGED <<sessions, nextId>>
          ELSE /\ inv' = [inv EXCEPT ![p] =
                    IF OwnedSession(req.session_id, req.user_id)
                    THEN [r EXCEPT !.pc = "exercise", !.session_id = req.session_id]
                    ELSE Raise(r, 404)]
               /\ UNCHANGED <<sessions, nextId>>
       /\ UNCHANGED <<exercises, sets>>
       /\ UNCHANGED <<parsed, openai, transcribed, client>>

\* step 2: create the exercise under the resolved session
log_workout_exercise(p) ==
    LET r == inv[p]
        req == r.request
        id == ExerciseIdFor(r.session_id, req.exercise_name)
    IN /\ r.pc = "exercise"
       /\ \E o \in Outcomes :
            \* ForeignKey("workout_sessions.id"): the session may be gone by now
            IF o = "ok" /\ r.session_id \in SessionIds
            THEN /\ exercises' = exercises \cup
                      {NewExercise(id, r.session_id, req.exercise_name)}
                 /\ nextId' = nextId + 1
                 /\ inv' = [inv EXCEPT ![p] =
                      [r EXCEPT !.pc = "sets", !.exercise_id = id,
                                !.written = Append(@, Wrote("exercise", id))]]
            ELSE /\ inv' = [inv EXCEPT ![p] = Raise(r, 500)]
                 /\ UNCHANGED <<exercises, nextId>>
       /\ UNCHANGED <<sessions, sets>>
       /\ UNCHANGED <<parsed, openai, transcribed, client>>

\* step 3, one iteration of the loop over request.sets
log_workout_set(p) ==
    LET r == inv[p]
        req == r.request
        k == NextSetIndex(Len(r.sets_created))
    IN /\ r.pc = "sets"
       /\ Len(r.sets_created) < Len(req.sets)
       /\ LET row == LoggedSet(uuid4, r.exercise_id, req.sets[k])
          IN \E o \in Outcomes :
               \* ForeignKey("exercises.id") and the re-read of the expired
               \* exercise: the exercise may be gone by now; nullable=False
               IF /\ o = "ok"
                  /\ r.exercise_id \in ExerciseIds
                  /\ ~NotNullViolation(row.set_number)
               THEN /\ sets' = sets \cup {row}
                    /\ nextId' = nextId + 1
                    /\ inv' = [inv EXCEPT ![p] =
                         [r EXCEPT !.sets_created = Append(@, uuid4),
                                   !.written = Append(@, Wrote("set", uuid4))]]
               ELSE /\ inv' = [inv EXCEPT ![p] = Raise(r, 500)]
                    /\ UNCHANGED <<sets, nextId>>
       /\ UNCHANGED <<sessions, exercises>>
       /\ UNCHANGED <<parsed, openai, transcribed, client>>

\* step 4: build LogWorkoutResponse; exercise.id was expired by the last set's commit
log_workout_return(p) ==
    LET r == inv[p]
    IN /\ r.pc = "sets"
       /\ Len(r.sets_created) = Len(r.request.sets)
       /\ inv' = [inv EXCEPT ![p] =
            IF Len(r.sets_created) > 0 /\ r.exercise_id \notin ExerciseIds
            THEN Raise(r, 500)
            ELSE [r EXCEPT !.pc = "close", !.status = 200]]
       /\ UNCHANGED <<sessions, exercises, sets, nextId>>
       /\ UNCHANGED <<parsed, openai, transcribed, client>>

\* log_workout_rollback taking the invocation's exercise row back, and no other row
log_workout_rollback_exercise_only(p) ==
    /\ inv[p].pc = "rollback"
    /\ inv' = [inv EXCEPT ![p].pc = "close"]
    /\ exercises' = {e \in exercises : e.id # inv[p].exercise_id}
    /\ UNCHANGED <<sessions, sets, nextId>>
    /\ UNCHANGED <<parsed, openai, transcribed, client>>

\* except HTTPException / except Exception: db.rollback() discards what is uncommitted
log_workout_rollback(p) ==
    /\ inv[p].pc = "rollback"
    /\ inv' = [inv EXCEPT ![p].pc = "close"]
    /\ UNCHANGED <<sessions, exercises, sets, nextId>>
    /\ UNCHANGED <<parsed, openai, transcribed, client>>

\* get_db without the finally: db.close() runs after a success only
get_db_close_on_success(p) ==
    /\ inv[p].pc = "close"
    /\ inv[p].status = 200
    /\ inv' = [inv EXCEPT ![p] = Idle]
    /\ UNCHANGED <<sessions, exercises, sets, nextId>>
    /\ UNCHANGED <<parsed, openai, transcribed, client>>

\* get_db: finally db.close(); the response or the error has reached the caller
get_db_close(p) ==
    /\ inv[p].pc = "close"
    /\ inv' = [inv EXCEPT ![p] = Idle]
    /\ UNCHANGED <<sessions, exercises, sets, nextId>>
    /\ UNCHANGED <<parsed, openai, transcribed, client>>

\* the steps of the log_workout invocations served in the slots P, on requests of R
LogNext(P, R) ==
    \/ \E p \in P, req \in R : log_workout_begin(p, req)
    \/ \E p \in P : log_workout_resolve(p)
    \/ \E p \in P : log_workout_exercise(p)
    \/ \E p \in P : log_workout_set(p)
    \/ \E p \in P : log_workout_return(p)
    \/ \E p \in P : log_workout_rollback(p)
    \/ \E p \in P : get_db_close(p)

Crud ==
    \/ \E u \in Users : create_workout_session(u, NoNotes)
    \/ \E id \in IdUniverse, n \in Names : create_exercise(id, n)
    \/ \E id \in IdUniverse, sd \in SetCreateInputs : create_set(id, sd)
    \/ \E id \in IdUniverse : delete_workout_session(id)
    \/ \E id \in IdUniverse : delete_exercise(id)
    \/ \E id \in IdUniverse : delete_set(id)

\* one log_workout invocation at a time, among CRUD requests of other clients
Next == LogNext({"p1"}, Requests) \/ Crud

Spec == Init /\ [][Next]_vars

(***************************************************************************)
(* Two log_workout invocations served concurrently, for a user who has     *)
(* created a session before (create_workout_session).                      *)
(***************************************************************************)
InitPair ==
    /\ sessions = {NewSession(EarlierId, "u1", NoNotes)}
    /\ exercises = {}
    /\ sets = {}
    /\ nextId = 1
    /\ inv = [p \in Procs |-> Idle]
    /\ parsed = NotParsed
    /\ openai = Configured
    /\ transcribed = NotTranscribed
    /\ client = NoClient

\* both invocations log into that session
PairRequests == {req \in Requests : req.session_id = EarlierId}

NextPair == LogNext(Procs, PairRequests)

SpecPair == InitPair /\ [][NextPair]_vars

(***************************************************************************)
(* parse_workout: the checks on the decoded model output and the           *)
(* validation loop over its sets.                                          *)
(***************************************************************************)
\* isinstance(x, int): bool is a subclass of int
IsInstanceInt(val) == val.t \in {"int", "bool"}

\* isinstance(x, (int, float))
IsInstanceNumber(val) == val.t \in {"int", "bool", "float"}

\* not isinstance(set_number, int) or set_number < 1
SetNumberInvalid(val) == ~IsInstanceInt(val) \/ val.v < 1

\* not isinstance(reps, int) or reps < 0
RepsRejected(val) == ~IsInstanceInt(val) \/ val.v < 0

\* not isinstance(weight, (int, float)) or weight < 0
WeightRejected(val) == ~IsInstanceNumber(val) \/ val.v < 0

\* RepairedSetNumber counting from 0
RepairedSetNumberOffByOne(k) == IntV(k - 1)

\* parsed_data["sets"][i]["set_number"] = i + 1, for the k-th entry (k = i + 1)
RepairedSetNumber(k) == IntV(k)

\* raise HTTPException(status_code=..., detail=...)
HTTPException(status, detail, at) ==
    [status |-> status, detail |-> detail, at |-> at, sets |-> <<>>]

\* return parsed_data
Returned(set_list) == [status |-> 200, detail |-> "", at |-> 0, sets |-> set_list]

\* CheckEntry with the weight test before the reps test
CheckEntryWeightFirst(set_data, k) ==
    IF WeightRejected(Get(set_data.weight))
    THEN HTTPException(400, "Invalid weight in set", k)
    ELSE IF RepsRejected(Get(set_data.reps))
         THEN HTTPException(400, "Invalid reps in set", k)
         ELSE Returned(<<>>)

\* the two rejecting tests on the k-th entry, in the order of the loop body
CheckEntry(set_data, k) ==
    IF RepsRejected(Get(set_data.reps))
    THEN HTTPException(400, "Invalid reps in set", k)
    ELSE IF WeightRejected(Get(set_data.weight))
         THEN HTTPException(400, "Invalid weight in set", k)
         ELSE Returned(<<>>)

\* for i, set_data in enumerate(parsed_data["sets"]), from the k-th entry on
RECURSIVE ValidateFrom(_, _)
ValidateFrom(set_list, k) ==
    IF k > Len(set_list)
    THEN Returned(set_list)
    ELSE LET set_data == set_list[k]
             repaired ==
                 IF SetNumberInvalid(Get(set_data.set_number))
                 THEN [set_list EXCEPT ![k].set_number = RepairedSetNumber(k)]
                 ELSE set_list
             check == CheckEntry(set_data, k)
         IN IF check.status # 200 THEN check ELSE ValidateFrom(repaired, k + 1)

\* DecodeFailure reported by the general handler
DecodeFailureConflated == HTTPException(500, "Failed to parse workout", 0)

\* except json.JSONDecodeError
DecodeFailure == HTTPException(500, "Failed to parse AI response", 0)

\* except Exception
OtherFailure == HTTPException(500, "Failed to parse workout", 0)

\* Incomplete with `and` for `or`
IncompleteBoth(out) == ~out.has_name /\ ~out.has_sets

\* "exercise_name" not in parsed_data or "sets" not in parsed_data
Incomplete(out) == ~out.has_name \/ ~out.has_sets

\* ParseModelOutput with the key test before the error test
ParseModelOutputKeysFirst(out) ==
    CASE out.kind = "raised" -> OtherFailure
      [] out.kind = "undecodable" -> DecodeFailure
      [] out.kind = "number" -> OtherFailure
      [] out.kind = "object" /\ Incomplete(out) ->
            HTTPException(400, "Invalid workout data format", 0)
      [] out.kind = "object" /\ ~Incomplete(out) /\ out.error # "absent" ->
            HTTPException(400, out.error, 0)
      [] OTHER -> ValidateFrom(out.sets, 1)

\* the completion call, json.loads and everything after it
ParseModelOutput(out) ==
    CASE out.kind = "raised" -> OtherFailure
      [] out.kind = "undecodable" -> DecodeFailure
      [] out.kind = "number" -> OtherFailure
      [] out.kind = "object" /\ out.error # "absent" -> HTTPException(400, out.error, 0)
      [] out.kind = "object" /\ out.error = "absent" /\ Incomplete(out) ->
            HTTPException(400, "Invalid workout data format", 0)
      [] OTHER -> ValidateFrom(out.sets, 1)

\* response = openai.ChatCompletion.create(...): what is answered, and the calls made
CompletionCall(out) == [reply |-> out, calls |-> 1]

\* EmptyText without the strip
EmptyTextUnstripped(text) == text = <<>>

\* not request.text or not request.text.strip()
EmptyText(text) == text = <<>> \/ Strip(text) = <<>>

\* ParseWorkoutStore writing a row for the text it was given
ParseWorkoutStoreWriting ==
    /\ sessions' = sessions \cup {NewSession(uuid4, "u1", NoNotes)}
    /\ nextId' = nextId + 1
    /\ UNCHANGED <<exercises, sets>>

\* the handler takes no database session
ParseWorkoutStore == UNCHANGED <<sessions, exercises, sets, nextId>>

\* a parse_workout call that ends before the completion service is called
Refused(text, error) ==
    [pc |-> "done", text |-> text, output |-> NoOutput, logged |-> FALSE] @@ error

\* POST /parse-workout with `text`, the completion service answering some `out` of Outs
parse_workout(text, Outs) ==
    /\ parsed.pc = "idle"
    /\ IF ~openai.api_key
       THEN /\ parsed' = Refused(text, HTTPException(500, "OpenAI API key not configured", 0))
            /\ UNCHANGED openai
       ELSE IF EmptyText(text)
       THEN /\ parsed' = Refused(text, HTTPException(400, "No text provided for parsing", 0))
            /\ UNCHANGED openai
       ELSE \E out \in Outs :
               LET call == CompletionCall(out)
               IN /\ parsed' = [pc |-> "done", text |-> text, output |-> call.reply,
                                 logged |-> FALSE] @@ ParseModelOutput(call.reply)
                  /\ openai' = [openai EXCEPT !.completions = @ + call.calls]
    /\ ParseWorkoutStore
    /\ UNCHANGED <<inv, transcribed, client>>

\* the caller of the pipeline: a parsed workout is posted to /log-workout as it is,
\* without a session id; a failed parse ends the run
PipelineRequest ==
    [user_id |-> "u1", session_id |-> NoId, exercise_name |-> "Bench Press",
     sets |-> parsed.sets, notes |-> "leg day"]

pipeline_log ==
    /\ parsed.pc = "done"
    /\ parsed.status = 200
    /\ ~parsed.logged
    /\ Accept("p1", PipelineRequest)
    /\ parsed' = [parsed EXCEPT !.logged = TRUE]
    /\ UNCHANGED <<openai, transcribed, client>>

\* the steps of an accepted invocation
LogSteps(P) ==
    \/ \E p \in P : log_workout_resolve(p)
    \/ \E p \in P : log_workout_exercise(p)
    \/ \E p \in P : log_workout_set(p)
    \/ \E p \in P : log_workout_return(p)
    \/ \E p \in P : log_workout_rollback(p)
    \/ \E p \in P : get_db_close(p)

NextParse ==
    \/ parse_workout(PipelineText, ModelOutputs)
    \/ pipeline_log
    \/ LogSteps({"p1"})

\* one run of the pipeline on an empty store: parse, then log what was parsed
SpecParse == Init /\ [][NextParse]_vars

(***************************************************************************)
(* transcribe_audio.                                                       *)
(***************************************************************************)
\* NotAudio with the prefix 'audio' for 'audio/'
NotAudioLoosePrefix(content_type) ==
    content_type.t = "none" \/ content_type.v = <<>>
       \/ ~StartsWith(content_type.v, <<"audio">>)

\* not audio_file.content_type or not audio_file.content_type.startswith('audio/')
NotAudio(content_type) ==
    content_type.t = "none" \/ content_type.v = <<>>
       \/ ~StartsWith(content_type.v, <<"audio", "/">>)

\* TooLarge with >= for >
TooLargeInclusive(size) == size >= MaxBytes

\* len(audio_content) > 25 * 1024 * 1024
TooLarge(size) == size > MaxBytes

\* the transcript a retried call would get
RetryReply == Transcript(<<"a">>)

\* WhisperCall with a second attempt after a raise
WhisperCallRetry(reply) ==
    IF reply = Unavailable THEN [reply |-> RetryReply, calls |-> 2]
    ELSE [reply |-> reply, calls |-> 1]

\* transcript = openai.Audio.transcribe(...): what is answered, and the calls made
WhisperCall(reply) == [reply |-> reply, calls |-> 1]

\* not transcript or not transcript.strip()
NoSpeech(transcript) == transcript = <<>> \/ Strip(transcript) = <<>>

\* TranscriptText without the strip
TranscriptTextRaw(transcript) == transcript

\* {"text": transcript.strip()}
TranscriptText(transcript) == Strip(transcript)

\* the answer to an upload once the service has been called
Transcribe(call) ==
    IF call.reply = Unavailable
    THEN [status |-> 500, detail |-> "Failed to transcribe audio", text |-> <<>>]
    ELSE IF NoSpeech(call.reply.v)
    THEN [status |-> 400, detail |-> "No speech detected in audio file.", text |-> <<>>]
    ELSE [status |-> 200, detail |-> "", text |-> TranscriptText(call.reply.v)]

\* POST /transcribe with an upload, the transcription service answering `reply`
transcribe_audio(content_type, size, reply) ==
    /\ transcribed.pc = "idle"
    /\ LET upload == [pc |-> "done", content_type |-> content_type, size |-> size,
                      reply |-> reply]
           refuse(status, detail) ==
               /\ transcribed' =
                     upload @@ [status |-> status, detail |-> detail, text |-> <<>>]
               /\ UNCHANGED openai
       IN IF ~openai.api_key THEN refuse(500, "OpenAI API key not configured")
          ELSE IF NotAudio(content_type)
          THEN refuse(400, "Invalid file type. Please upload an audio file.")
          ELSE IF TooLarge(size)
          THEN refuse(400, "File too large. Maximum size is 25MB.")
          ELSE LET call == WhisperCall(reply)
               IN /\ transcribed' = [upload EXCEPT !.reply = call.reply] @@ Transcribe(call)
                  /\ openai' = [openai EXCEPT !.transcriptions = @ + call.calls]
    /\ UNCHANGED <<sessions, exercises, sets, nextId, inv, parsed, client>>

(***************************************************************************)
(* A store that earlier requests have filled: two sessions of two users,   *)
(* with exercises and sets.                                                *)
(***************************************************************************)
SeedSet == [set_number |-> IntV(1), reps |-> IntV(8), weight |-> IntV(185)]

SeedSessions == {NewSession(EarlierId, "u1", NoNotes), NewSession(OtherId, "u2", NoNotes)}

SeedExercises ==
    {NewExercise(-4, EarlierId, "Bench Press"), NewExercise(-5, EarlierId, "Bench Press"),
     NewExercise(-6, OtherId, "Bench Press")}

SeedSets ==
    {NewSet(-7, -4, SeedSet), NewSet(-8, -4, SeedSet), NewSet(-9, -5, SeedSet),
     NewSet(-10, -5, SeedSet), NewSet(-11, -6, SeedSet), NewSet(-12, -6, SeedSet)}

Seeded ==
    /\ sessions = SeedSessions
    /\ exercises = SeedExercises
    /\ sets = SeedSets
    /\ nextId = 1
    /\ inv = [p \in Procs |-> Idle]
    /\ parsed = NotParsed
    /\ transcribed = NotTranscribed

(***************************************************************************)
(* One submission to the voice pipeline over a filled store, with or       *)
(* without OPENAI_API_KEY in the environment: an upload is transcribed and *)
(* its text parsed, or a text is posted to /parse-workout directly.        *)
(***************************************************************************)
InitVoice ==
    /\ Seeded
    /\ client = NoClient
    /\ openai \in {Configured, [Configured EXCEPT !.api_key = FALSE]}

\* the client uploads an audio file
voice_transcribe ==
    /\ parsed.pc = "idle"
    /\ transcribed.pc = "idle"
    /\ \E content_type \in ContentTypes, size \in Sizes, reply \in Replies :
          transcribe_audio(content_type, size, reply)

\* the client posts the transcript it got
voice_parse ==
    /\ transcribed.pc = "done"
    /\ transcribed.status = 200
    /\ parse_workout(transcribed.text, VoiceOutputs)

\* a client posts a text of its own
text_parse ==
    /\ transcribed.pc = "idle"
    /\ \E text \in Texts : parse_workout(text, VoiceOutputs)

NextVoice ==
    \/ voice_transcribe
    \/ voice_parse
    \/ text_parse

SpecVoice == InitVoice /\ [][NextVoice]_vars

(***************************************************************************)
(* Deletes over a filled store.                                            *)
(***************************************************************************)
InitCascade ==
    /\ Seeded
    /\ client = NoClient
    /\ openai = Configured

NextCascade ==
    \/ \E id \in SessionIds : delete_workout_session(id)
    \/ \E id \in ExerciseIds : delete_exercise(id)
    \/ \E id \in SetIds : delete_set(id)

SpecCascade == InitCascade /\ [][NextCascade]_vars

(***************************************************************************)
(* get_workout_sessions: the sessions, each with its exercises and their   *)
(* sets, as the relationships load them.                                   *)
(***************************************************************************)
\* sets_data of an exercise
SetsData(exercise) ==
    {[id |-> x.id, set_number |-> x.set_number, reps |-> x.reps, weight |-> x.weight] :
        x \in SetsOf(exercise.id)}

\* exercises_data of a session
ExercisesData(session) ==
    {[id |-> e.id, exercise_name |-> e.exercise_name, sets |-> SetsData(e)] :
        e \in ExercisesOf(session.id)}

\* Filtered without the user_id filter
FilteredNever(user_id) == sessions

\* if user_id: query = query.filter(WorkoutSession.user_id == user_id)
\* (None and the empty string are both false)
Filtered(user_id) ==
    IF user_id \in {NoUser, EmptyUser}
    THEN sessions
    ELSE {s \in sessions : s.user_id = user_id}

\* the list of WorkoutSessionResponse
WorkoutSessionResponses(user_id) ==
    {[id |-> s.id, user_id |-> s.user_id, notes |-> s.notes,
      exercises |-> ExercisesData(s)] : s \in Filtered(user_id)}

\* GET /workout-sessions?user_id=...
get_workout_sessions(user_id) ==
    /\ client' = [client EXCEPT !.history =
                     [pc |-> "done", user_id |-> user_id,
                      result |-> WorkoutSessionResponses(user_id)]]
    /\ UNCHANGED <<sessions, exercises, sets, nextId, inv, parsed, openai, transcribed>>

(***************************************************************************)
(* A client that posts one set, through create_set or in log_workout       *)
(* requests, into a filled store, and reads the history.                   *)
(***************************************************************************)
\* set_number, reps and weight of the declared types: an integer, an integer or
\* nothing, a number or nothing
RoundTripInputs ==
    {[set_number |-> IntV(1), reps |-> IntV(8), weight |-> IntV(185)],
     [set_number |-> IntV(3), reps |-> IntV(0), weight |-> FloatV(1855)],
     [set_number |-> IntV(3), reps |-> IntV(8), weight |-> Missing],
     [set_number |-> IntV(1), reps |-> Missing, weight |-> FloatV(1855)]}

InitRead ==
    /\ Seeded
    /\ openai = Configured
    /\ client \in [body : RoundTripInputs, response : {NoResponse}, history : {NoHistory}]

\* the requests that carry the client's set
ReadRequests ==
    [user_id : {"u1"}, session_id : {NoId, EarlierId}, exercise_name : Names,
     sets : {<<client.body>>}, notes : LogNotes]

\* the client posts, then reads as often as it likes
NextRead ==
    \/ /\ client.history.pc = "idle"
       /\ \E id \in ExerciseIds : create_set(id, client.body)
    \/ /\ client.history.pc = "idle"
       /\ \E req \in ReadRequests : log_workout_begin("p1", req)
    \/ LogSteps({"p1"})
    \/ \E user_id \in Users \cup {NoUser} : get_workout_sessions(user_id)

SpecRead == InitRead /\ [][NextRead]_vars

(***************************************************************************)
(* The whole pipeline of one user on a filled store: parse, log what was   *)
(* parsed into a new session, read the user's history.                     *)
(***************************************************************************)
\* user_id: str, of LogWorkoutRequest and of the query: any string
PipelineUsers == {"u1", EmptyUser}

\* the parsed workout is posted for user_id, without a session id
history_log(user_id) ==
    /\ parsed.pc = "done"
    /\ parsed.status = 200
    /\ ~parsed.logged
    /\ Accept("p1", [PipelineRequest EXCEPT !.user_id = user_id])
    /\ parsed' = [parsed EXCEPT !.logged = TRUE]
    /\ UNCHANGED <<openai, transcribed, client>>

\* the 200 response of log_workout has arrived: the client keeps it and asks for
\* the history of the same user
pipeline_history ==
    LET r == inv["p1"]
        user_id == r.request.user_id
    IN /\ r.pc = "close"
       /\ r.status = 200
       /\ client.history.pc = "idle"
       /\ client' = [client EXCEPT
             !.response = [session_id |-> r.session_id, exercise_id |-> r.exercise_id,
                           sets_created |-> r.sets_created],
             !.history = [pc |-> "done", user_id |-> user_id,
                          result |-> WorkoutSessionResponses(user_id)]]
       /\ UNCHANGED <<sessions, exercises, sets, nextId, inv, parsed, openai, transcribed>>

InitHistory ==
    /\ Seeded
    /\ openai = Configured
    /\ client = NoClient

NextHistory ==
    \/ parse_workout(PipelineText, ModelOutputs)
    \/ \E user_id \in PipelineUsers : history_log(user_id)
    \/ LogSteps({"p1"})
    \/ pipeline_history

SpecHistory == InitHistory /\ [][NextHistory]_vars

(***************************************************************************)
(* The server at work: it runs every handler it has entered to its end.    *)
(* One log_workout invocation at a time on a filled store, for a new       *)
(* session, an own one, another user's and one that does not exist, with   *)
(* sets the store accepts and sets it refuses.                             *)
(***************************************************************************)
ReleaseRequests ==
    [user_id : Callers, session_id : {NoId, EarlierId, OtherId, BogusId},
     exercise_name : Names,
     sets : SeqsUpTo({DefaultBody, [DefaultBody EXCEPT !.set_number = Null]}, MaxSets),
     notes : LogNotes]

InitRelease ==
    /\ Seeded
    /\ openai = Configured
    /\ client = NoClient

NextRelease == LogNext({"p1"}, ReleaseRequests)

\* the handler is a coroutine without an await: once entered it runs on
SpecRelease == InitRelease /\ [][NextRelease]_vars /\ WF_vars(LogSteps({"p1"}))

(***************************************************************************)
(* The server as start_backend.py runs it: one process, one event loop.    *)
(* log_workout is an async def whose body holds no await, so the loop runs *)
(* the body of one invocation from its first statement to its return or    *)
(* raise before it enters the body of another.  Depends(get_db) runs in    *)
(* the thread pool, before and after the body.                             *)
(***************************************************************************)
\* the event loop is inside the body of invocation p
Running(p) == inv[p].pc \in {"resolve", "exercise", "sets", "rollback"}

\* a request has been read and waits for the event loop
log_workout_arrive(p, req) ==
    /\ inv[p].pc = "idle"
    /\ \A q \in Procs : Before(q, p) => inv[q].pc # "idle"
    /\ req.session_id \in SessionIds \cup {NoId, BogusId}
    /\ Spare >= (IF req.session_id = NoId THEN 1 ELSE 0) + 1 + Len(req.sets)
    /\ inv' = [inv EXCEPT ![p] = [Idle EXCEPT !.pc = "waiting", !.request = req]]
    /\ UNCHANGED <<sessions, exercises, sets, nextId>>
    /\ UNCHANGED <<parsed, openai, transcribed, client>>

\* the event loop enters the body of log_workout for p
log_workout_enter(p) ==
    /\ inv[p].pc = "waiting"
    /\ \A q \in Procs \ {p} : ~Running(q)
    /\ inv' = [inv EXCEPT ![p].pc = "resolve"]
    /\ UNCHANGED <<sessions, exercises, sets, nextId>>
    /\ UNCHANGED <<parsed, openai, transcribed, client>>

NextLoop ==
    \/ \E p \in Procs, req \in PairRequests : log_workout_arrive(p, req)
    \/ \E p \in Procs : log_workout_enter(p)
    \/ LogSteps(Procs)

\* two clients post into the same session of a single-process server
SpecLoop == InitPair /\ [][NextLoop]_vars

(***************************************************************************)
(* Properties of log_workout and of the store.                             *)
(***************************************************************************)
\* the response of invocation p has been produced and its rollback, if any, is over
Answered(p) == inv[p].pc = "close"
Succeeded(p) == Answered(p) /\ inv[p].status = 200
Failed(p) == Answered(p) /\ inv[p].status # 200

\* the rows that invocation p wrote and that are still stored
Stored(w) ==
    CASE w.table = "session" -> w.id \in SessionIds
      [] w.table = "exercise" -> w.id \in ExerciseIds
      [] OTHER -> w.id \in SetIds

LeftBy(p) == {i \in 1..Len(inv[p].written) : Stored(inv[p].written[i])}

\* C1: a log_workout that ends in an error leaves no row that it created: no new
\* session, no new exercise, no new set.
C1_AtomicOnFailure == \A p \in Procs : Failed(p) => LeftBy(p) = {}

\* the tables a successful invocation writes to, in order
ExpectedTables(req) ==
    (IF req.session_id = NoId THEN <<"session">> ELSE <<>>)
      \o <<"exercise">> \o [i \in 1..Len(req.sets) |-> "set"]

\* the values a set entry carries over into its row
CarriedOver(row, set_data) ==
    /\ row.set_number = (IF set_data.set_number = Missing THEN IntV(1) ELSE set_data.set_number)
    /\ row.reps = (IF set_data.reps = Missing THEN Null ELSE set_data.reps)
    /\ row.weight =
         (CASE set_data.weight = Missing -> Null
            [] set_data.weight.t = "int" -> FloatV(10 * set_data.weight.v)
            [] OTHER -> set_data.weight)

\* C2: a successful log_workout with N sets wrote exactly one exercise under the
\* resolved session and exactly N sets under that exercise, one session when no
\* session id was given and none otherwise, and returns the resolved session id,
\* the exercise id and the N set ids in the order of the input sets.
C2_SuccessWritesOneExerciseNSets ==
    \A p \in Procs : Succeeded(p) =>
       LET r == inv[p]
           req == r.request
           w == r.written
           n == Len(req.sets)
           off == IF req.session_id = NoId THEN 1 ELSE 0
       IN /\ [i \in 1..Len(w) |-> w[i].table] = ExpectedTables(req)
          /\ \A i, j \in 1..Len(w) : i # j => w[i].id # w[j].id
          /\ r.session_id = (IF req.session_id = NoId THEN w[1].id ELSE req.session_id)
          /\ r.exercise_id = w[off + 1].id
          /\ r.sets_created = [i \in 1..n |-> w[off + 1 + i].id]
          /\ \A s \in sessions :
               (req.session_id = NoId /\ s.id = r.session_id) =>
                  s.user_id = req.user_id /\ s.notes = req.notes
          /\ \A e \in exercises :
               e.id = r.exercise_id =>
                  e.session_id = r.session_id /\ e.exercise_name = req.exercise_name
          /\ \A i \in 1..n : \A s \in sets :
               s.id = r.sets_created[i] =>
                  s.exercise_id = r.exercise_id /\ CarriedOver(s, req.sets[i])

\* a success with two sets and a new session, every row of it stored
C2_Witness ==
    \E p \in Procs :
       /\ Succeeded(p)
       /\ inv[p].request.session_id = NoId
       /\ Len(inv[p].request.sets) = 2
       /\ inv[p].request.sets[1] # inv[p].request.sets[2]
       /\ LeftBy(p) = 1..4

\* the session id of the request is given and matches no session of the caller
NotOwned(req) ==
    /\ req.session_id # NoId
    /\ ~\E s \in sessions : s.id = req.session_id /\ s.user_id = req.user_id

\* C3 (step): when log_workout checks a session id that does not exist or belongs
\* to another user, it raises 404 and no row of the store changes.
C3_Step ==
    \A p \in Procs :
       (inv[p].pc = "resolve" /\ inv'[p] # inv[p] /\ NotOwned(inv[p].request)) =>
          /\ inv'[p].pc = "rollback"
          /\ inv'[p].status = 404
          /\ inv'[p].written = <<>>
          /\ <<sessions, exercises, sets>>' = <<sessions, exercises, sets>>

\* C3 (state): the 404 is answered with nothing written, and an invocation that got
\* past the check never holds the id of a session of another user.
C3_State ==
    \A p \in Procs :
       /\ inv[p].status = 404 => inv[p].written = <<>> /\ inv[p].request.session_id # NoId
       /\ (inv[p].pc \in {"exercise", "sets"} \/ Succeeded(p))
            => /\ inv[p].session_id # BogusId
               /\ \A s \in sessions :
                    s.id = inv[p].session_id => s.user_id = inv[p].request.user_id

\* C3: log_workout with a session id that does not exist or belongs to a different
\* user fails with 404 (session not found), never succeeds, creates nothing under
\* that session and changes no row.
C3_SessionScoped == [](C3_State) /\ [][C3_Step]_vars

\* a 404 for a session that exists and belongs to the other user
C3_Witness ==
    \E p \in Procs :
       /\ Failed(p)
       /\ inv[p].status = 404
       /\ \E s \in sessions :
            s.id = inv[p].request.session_id /\ s.user_id # inv[p].request.user_id

C9_NotIdempotent ==
    \A p, q \in Procs :
       (p # q /\ Succeeded(p) /\ Succeeded(q) /\ inv[p].request = inv[q].request) =>
          LET ids(x) == {inv[x].written[i].id : i \in 1..Len(inv[x].written)}
              n == Len(inv[p].request.sets)
          IN /\ inv[p].exercise_id # inv[q].exercise_id
             /\ ids(p) \cap ids(q) = {}
             /\ Cardinality(ids(p)) = 1 + n
             /\ Cardinality(ids(q)) = 1 + n
             /\ \A s \in sets :
                  /\ s.id \in ids(p) => s.exercise_id = inv[p].exercise_id
                  /\ s.id \in ids(q) => s.exercise_id = inv[q].exercise_id

\* both calls succeeded on the same one-set request and all their rows are stored
C9_Witness ==
    \E p, q \in Procs :
       /\ p # q /\ Succeeded(p) /\ Succeeded(q)
       /\ inv[p].request = inv[q].request
       /\ Len(inv[p].request.sets) = 1
       /\ Cardinality(exercises) = 2 /\ Cardinality(sets) = 2

(***************************************************************************)
(* Properties of parse_workout, on one run of the pipeline.                *)
(***************************************************************************)
Answer == parsed
Output == parsed.output
Parsed == parsed.pc = "done"

\* the output is an object that reaches the validation loop
Complete(out) == out.kind = "object" /\ out.error = "absent" /\ out.has_name /\ out.has_sets

\* nothing was posted to /log-workout and the store is as it was created
NothingLogged ==
    /\ ~parsed.logged
    /\ \A p \in Procs : inv[p] = Idle
    /\ sessions = {} /\ exercises = {} /\ sets = {} /\ nextId = 1

\* C5 as claimed: the set_number values of an accepted structure are 1, 2, ..., N in
\* input order, whatever the model supplied.
C5_SetNumbersOneToN ==
    (Parsed /\ Answer.status = 200) =>
       \A k \in 1..Len(Answer.sets) : Answer.sets[k].set_number = IntV(k)

\* a set_number that the validator keeps: an integer >= 1, or true (an int to Python)
KeptSetNumber(val) == (val.t = "int" /\ val.v >= 1) \/ val = BoolV(1)

\* C5 as amended: in an accepted structure the k-th set_number is k where the
\* supplied one was missing, not an integer or < 1, and is the supplied one elsewhere.
C5_InvalidSetNumbersRepaired ==
    (Parsed /\ Answer.status = 200) =>
       /\ Len(Answer.sets) = Len(Output.sets)
       /\ \A k \in 1..Len(Answer.sets) :
            Answer.sets[k].set_number =
               (IF KeptSetNumber(Output.sets[k].set_number)
                THEN Output.sets[k].set_number ELSE IntV(k))

\* an accepted structure whose second set_number was missing and whose first was 3
C5_Witness ==
    /\ Parsed /\ Answer.status = 200
    /\ Len(Output.sets) = 2
    /\ Output.sets[1].set_number = IntV(3)
    /\ Output.sets[2].set_number = Missing
    /\ Answer.sets[2].set_number = IntV(2)

\* reps as the spec wants it rejected: missing, not an integer, or negative
RepsDefective(val) == val.t # "int" \/ val.v < 0

\* weight as the spec wants it rejected: missing, not numeric, or negative
WeightDefective(val) == val.t \notin {"int", "float"} \/ val.v < 0

FirstDefective(out, k) ==
    \A j \in 1..(k - 1) :
       ~RepsDefective(out.sets[j].reps) /\ ~WeightDefective(out.sets[j].weight)

\* C6: a set entry whose reps is missing, not an integer or negative (the first
\* defective entry of the structure) makes parse_workout fail with "Invalid reps"
\* for that entry; nothing is returned and no row is created.
C6_BadRepsRejected ==
    Parsed =>
       \A k \in 1..Len(Output.sets) :
          (Complete(Output) /\ FirstDefective(Output, k)
             /\ RepsDefective(Output.sets[k].reps))
            => /\ Answer.status = 400
               /\ Answer.detail = "Invalid reps in set"
               /\ Answer.at = k
               /\ Answer.sets = <<>>
               /\ NothingLogged

\* C7: a set entry whose weight is missing, not numeric or negative, no earlier
\* check having rejected, makes parse_workout fail with "Invalid weight" for that
\* entry; nothing is returned and no row is created.
C7_BadWeightRejected ==
    Parsed =>
       \A k \in 1..Len(Output.sets) :
          (Complete(Output) /\ FirstDefective(Output, k)
             /\ ~RepsDefective(Output.sets[k].reps)
             /\ WeightDefective(Output.sets[k].weight))
            => /\ Answer.status = 400
               /\ Answer.detail = "Invalid weight in set"
               /\ Answer.at = k
               /\ Answer.sets = <<>>
               /\ NothingLogged

\* the entries the validation loop rejects, told by the JSON type of the value
RejectsReps(val) ==
    val.t \in {"missing", "null", "str", "float"} \/ (val.t \in {"int", "bool"} /\ val.v < 0)
RejectsWeight(val) ==
    val.t \in {"missing", "null", "str"} \/ (val.t \in {"int", "bool", "float"} /\ val.v < 0)
Rejecting(out) ==
    {k \in 1..Len(out.sets) : RejectsReps(out.sets[k].reps) \/ RejectsWeight(out.sets[k].weight)}

\* C8: validation is all-or-nothing with a fixed error: the error is that of the
\* lowest-index rejecting entry, reps before weight within it; nothing of the list
\* is returned or logged.
C8_FirstRejectionWins ==
    (Parsed /\ Complete(Output)) =>
       IF Rejecting(Output) = {}
       THEN Answer.status = 200 /\ Len(Answer.sets) = Len(Output.sets)
       ELSE LET m == CHOOSE k \in Rejecting(Output) : \A j \in Rejecting(Output) : k <= j
            IN /\ Answer.status = 400
               /\ Answer.at = m
               /\ Answer.detail =
                    (IF RejectsReps(Output.sets[m].reps)
                     THEN "Invalid reps in set" ELSE "Invalid weight in set")
               /\ Answer.sets = <<>>
               /\ NothingLogged

\* two rejecting entries; the first has a bad weight only, the second a bad reps
C8_Witness ==
    /\ Parsed /\ Complete(Output)
    /\ Rejecting(Output) = {1, 2}
    /\ ~RejectsReps(Output.sets[1].reps)
    /\ RejectsReps(Output.sets[2].reps)
    /\ Answer.detail = "Invalid weight in set" /\ Answer.at = 1

\* C10: a decoded output with an error key is answered 400 with that reason, whether
\* or not exercise_name and sets are there; no set is validated, nothing is logged.
C10_ErrorKeyRejected ==
    (Parsed /\ Output.kind = "object" /\ Output.error # "absent") =>
       /\ Answer.status = 400
       /\ Answer.detail = Output.error
       /\ Answer.at = 0
       /\ Answer.sets = <<>>
       /\ NothingLogged

\* an error key next to exercise_name and a set with bad reps
C10_Witness ==
    /\ Parsed /\ Output.kind = "object" /\ Output.error # "absent"
    /\ Output.has_name /\ Output.has_sets
    /\ Len(Output.sets) = 1 /\ RejectsReps(Output.sets[1].reps)
    /\ Answer.status = 400

\* C11: a decoded object without an error key that lacks exercise_name or lacks sets is
\* answered 400 "Invalid workout data format" and nothing is logged; a key that was
\* not asked for never causes a failure: an object carrying one fails only for an
\* error key, a missing key or a rejected set entry.
C11_IncompleteStructure ==
    (Parsed /\ Output.kind = "object" /\ Output.error = "absent") =>
       /\ (~Output.has_name \/ ~Output.has_sets) =>
             /\ Answer.status = 400
             /\ Answer.detail = "Invalid workout data format"
             /\ Answer.sets = <<>>
             /\ NothingLogged
       /\ (Output.extra /\ Output.has_name /\ Output.has_sets /\ Rejecting(Output) = {}) =>
             Answer.status = 200

\* an object with exercise_name and an extra key, without sets
C11_Witness ==
    /\ Parsed /\ Output.kind = "object" /\ Output.error = "absent"
    /\ Output.has_name /\ ~Output.has_sets /\ Output.extra
    /\ Answer.status = 400

\* C12: a model response that does not decode as JSON, and no other outcome of the
\* call, is answered 500 "Failed to parse AI response": the answer differs from that of
\* an error key, a missing key, a rejected set entry and a completion call that raised.
C12_DecodeFailureDistinct ==
    Parsed =>
       ((Output.kind = "undecodable")
          <=> (Answer.status = 500 /\ Answer.detail = "Failed to parse AI response"))

\* the completion service answered text that is not JSON
C12_Witness ==
    /\ Parsed /\ Output.kind = "undecodable"
    /\ openai.completions = 1
    /\ Answer.status = 500

(***************************************************************************)
(* Properties of one submission to the voice pipeline.                     *)
(***************************************************************************)
\* a text with nothing but blanks in it, the empty text included
Blank(text) == \A i \in 1..Len(text) : text[i] = " "

\* C13 as claimed: parse_workout with an empty or whitespace-only text is answered
\* 400 "No text provided for parsing" and the completion service is not called.
C13_EmptyInputRejected ==
    (Parsed /\ Blank(parsed.text)) =>
       /\ Answer.status = 400
       /\ Answer.detail = "No text provided for parsing"
       /\ openai.completions = 0

\* C13 as amended: parse_workout with an empty or whitespace-only text never calls the
\* completion service; it is answered 400 "No text provided for parsing" when the API
\* key is configured and 500 "OpenAI API key not configured" when it is not.
C13_EmptyInputNeverSent ==
    (Parsed /\ Blank(parsed.text)) =>
       /\ openai.completions = 0
       /\ Output = NoOutput
       /\ Answer.sets = <<>>
       /\ IF openai.api_key
          THEN Answer.status = 400 /\ Answer.detail = "No text provided for parsing"
          ELSE Answer.status = 500 /\ Answer.detail = "OpenAI API key not configured"

\* a text of blanks was posted to a configured server
C13_Witness ==
    /\ Parsed /\ Blank(parsed.text) /\ Len(parsed.text) >= 1
    /\ openai.api_key
    /\ Answer.status = 400

\* a step in which a parse_workout call is answered
C14_Step ==
    (parsed.pc = "idle" /\ parsed'.pc = "done") =>
       /\ sessions' = sessions
       /\ exercises' = exercises
       /\ sets' = sets

\* C14: parse_workout leaves the rows of the three tables as they are, whatever the
\* answer: a parsed structure, a rejection, malformed output, a failed call, a refusal.
C14_ParseLeavesStore == [][C14_Step]_vars

\* a structure was parsed over a store that holds sessions, exercises and sets
C14_Witness ==
    /\ Parsed /\ Answer.status = 200
    /\ sessions # {} /\ exercises # {} /\ sets # {}

Upload == transcribed
Transcribed == transcribed.pc = "done"

\* a declared type that is an audio type: audio/<subtype>
AudioType(content_type) ==
    /\ content_type.t = "str"
    /\ Len(content_type.v) = 3
    /\ content_type.v[1] = "audio" /\ content_type.v[2] = "/"

TooLargeDetail == "File too large. Maximum size is 25MB."

\* C15 as claimed: an upload of more than 25 MB is answered 400 "File too large" and
\* the transcription service is not called; an upload of exactly 25 MB is not refused
\* for its size.
C15_PayloadTooLarge ==
    Transcribed =>
       /\ Upload.size > 25 * 1024 * 1024 =>
             /\ Upload.status = 400
             /\ Upload.detail = TooLargeDetail
             /\ openai.transcriptions = 0
       /\ Upload.size = 25 * 1024 * 1024 => Upload.detail # TooLargeDetail

\* C15 as amended: an upload of more than 25 MB never reaches the transcription
\* service and is never answered 200; it is answered 400 "File too large" when the API
\* key is configured and the declared type is an audio type (the key and the type are
\* tested first).  An upload of 25 MB or less is never refused for its size, and with
\* a key and an audio type it is sent to the service.
C15_OversizeNeverSent ==
    Transcribed =>
       /\ Upload.size > 25 * 1024 * 1024 =>
             /\ openai.transcriptions = 0
             /\ Upload.status # 200
             /\ (openai.api_key /\ AudioType(Upload.content_type)) =>
                   (Upload.status = 400 /\ Upload.detail = TooLargeDetail)
       /\ Upload.size <= 25 * 1024 * 1024 =>
             /\ Upload.detail # TooLargeDetail
             /\ (openai.api_key /\ AudioType(Upload.content_type)) =>
                   openai.transcriptions = 1

\* an audio upload one byte over the limit was refused by a configured server
C15_Witness ==
    /\ Transcribed /\ Upload.size = 25 * 1024 * 1024 + 1
    /\ openai.api_key /\ AudioType(Upload.content_type)
    /\ Upload.status = 400 /\ openai.transcriptions = 0

InvalidTypeDetail == "Invalid file type. Please upload an audio file."

\* C16 as claimed: an upload whose declared type is absent or not an audio type is
\* answered 400 "Invalid file type" and the transcription service is not called.
C16_UnsupportedMedia ==
    (Transcribed /\ ~AudioType(Upload.content_type)) =>
       /\ Upload.status = 400
       /\ Upload.detail = InvalidTypeDetail
       /\ openai.transcriptions = 0

\* C16 as amended: an upload whose declared type is absent or not an audio type never
\* reaches the transcription service; it is answered 400 "Invalid file type" when the
\* API key is configured and 500 "OpenAI API key not configured" when it is not.
C16_NonAudioNeverSent ==
    (Transcribed /\ ~AudioType(Upload.content_type)) =>
       /\ openai.transcriptions = 0
       /\ Upload.text = <<>>
       /\ IF openai.api_key
          THEN Upload.status = 400 /\ Upload.detail = InvalidTypeDetail
          ELSE Upload.status = 500 /\ Upload.detail = "OpenAI API key not configured"

\* an upload declared as "audio", without a subtype, was refused by a configured server
C16_Witness ==
    /\ Transcribed /\ Upload.content_type = ContentType(<<"audio">>)
    /\ openai.api_key
    /\ Upload.status = 400

\* text is `inner` with blanks before and after it
Trims(text, inner) ==
    \E i, j \in 0..Len(text) :
       /\ i + Len(inner) + j = Len(text)
       /\ SubSeq(text, i + 1, i + Len(inner)) = inner
       /\ Blank(SubSeq(text, 1, i))
       /\ Blank(SubSeq(text, Len(text) - j + 1, Len(text)))

\* C17: a 200 of transcribe_audio carries the transcript without its outer blanks, and
\* that text is not empty; a transcript that is empty or all blanks is answered 400
\* "No speech detected" and no text.
C17_TrimmedNonEmpty ==
    Transcribed =>
       /\ Upload.status = 200 =>
             /\ Upload.text # <<>>
             /\ Upload.text[1] # " " /\ Upload.text[Len(Upload.text)] # " "
             /\ Upload.reply.t = "text" /\ Trims(Upload.reply.v, Upload.text)
       /\ (openai.transcriptions = 1 /\ Upload.reply.t = "text" /\ Blank(Upload.reply.v)) =>
             /\ Upload.status = 400
             /\ Upload.detail = "No speech detected in audio file."
             /\ Upload.text = <<>>

\* a transcript with a blank in front was returned without it
C17_Witness ==
    /\ Transcribed /\ Upload.status = 200
    /\ Upload.reply.v[1] = " "
    /\ Upload.text # Upload.reply.v

\* C18: a transcribe_audio call calls the transcription service at most once and a
\* parse_workout call calls the completion service at most once; when that one call
\* raises, the answer is a failure (500 "Failed to transcribe audio" for
\* transcription) and no second call follows.
C18_NoRetry ==
    /\ openai.transcriptions <= 1
    /\ openai.completions <= 1
    /\ (Transcribed /\ openai.transcriptions = 1 /\ Upload.reply = Unavailable) =>
          /\ Upload.status = 500
          /\ Upload.detail = "Failed to transcribe audio"
          /\ Upload.text = <<>>
    /\ (Parsed /\ Output.kind = "raised") =>
          /\ Answer.status = 500
          /\ Answer.sets = <<>>
          /\ openai.completions = 1

\* the transcription service was called and raised
C18_Witness ==
    /\ Transcribed /\ openai.transcriptions = 1 /\ Upload.reply = Unavailable
    /\ Upload.status = 500

(***************************************************************************)
(* Properties of the deletes and of the stored sets.                       *)
(***************************************************************************)
\* what a step of the deletes removes: no row appears; when a session goes, exactly
\* its exercises and their sets go with it; when an exercise goes (its session staying),
\* exactly its sets go with it
C19_Step ==
    LET goneSessions == sessions \ sessions'
        goneExercises == exercises \ exercises'
        goneSets == sets \ sets'
    IN /\ sessions' \subseteq sessions /\ exercises' \subseteq exercises /\ sets' \subseteq sets
       /\ goneSessions # {} =>
             /\ Cardinality(goneSessions) = 1
             /\ goneExercises =
                  {e \in exercises : \E s \in goneSessions : e.session_id = s.id}
             /\ goneSets = {x \in sets : \E e \in goneExercises : x.exercise_id = e.id}
       /\ (goneSessions = {} /\ goneExercises # {}) =>
             /\ Cardinality(goneExercises) = 1
             /\ goneSets = {x \in sets : \E e \in goneExercises : x.exercise_id = e.id}

\* C19: deleting a session removes it, its exercises and their sets; deleting an
\* exercise removes it and its sets; every other row stays as it is.
C19_CascadeExact == [][C19_Step]_vars

\* the first user's session is gone with all its rows; the other user's rows are all there
C19_Witness ==
    /\ sessions = {s \in SeedSessions : s.id = OtherId}
    /\ exercises = {e \in SeedExercises : e.session_id = OtherId}
    /\ sets = {x \in SeedSets : \E e \in exercises : x.exercise_id = e.id}
    /\ Cardinality(sets) = 2

\* C20: every stored set has set_number >= 1 and, where they are present, reps >= 0
\* and weight >= 0.
C20_StoredSetsValid ==
    \A x \in sets :
       /\ x.set_number.t = "int" /\ x.set_number.v >= 1
       /\ x.reps.t # "null" => (x.reps.t = "int" /\ x.reps.v >= 0)
       /\ x.weight.t # "null" => (x.weight.t = "float" /\ x.weight.v >= 0)

(***************************************************************************)
(* The history read.                                                       *)
(***************************************************************************)
\* the number a JSON value stands for, in tenths: 185 and 185.0 are the same
\* number, an absent value and null are both no number
Num(val) ==
    CASE val.t \in {"int", "bool"} -> [k |-> "number", v |-> val.v * 10]
      [] val.t = "float" -> [k |-> "number", v |-> val.v]
      [] val.t \in {"missing", "null"} -> [k |-> "none", v |-> 0]
      [] OTHER -> [k |-> val.t, v |-> val.v]

\* the sets of a history response, each with the exercise and session around it
HistorySets(result) ==
    UNION {UNION {{[session |-> s.id, exercise |-> e.id, set |-> r] : r \in e.sets} :
                    e \in s.exercises} : s \in result}

\* the set row's session is one the read selects
Selected(x, user_id) ==
    \E e \in exercises, s \in Filtered(user_id) :
        e.id = x.exercise_id /\ s.id = e.session_id

\* a history entry holds the set_number, reps and weight the client posted
ReadsAsPosted(r) ==
    /\ Num(r.set_number) = Num(client.body.set_number)
    /\ Num(r.reps) = Num(client.body.reps)
    /\ Num(r.weight) = Num(client.body.weight)

C21_Step ==
    client'.history # client.history =>
        \A x \in sets :
            (x.id >= 1 /\ Selected(x, client'.history.user_id)) =>
                \E h \in HistorySets(client'.history.result) :
                    /\ h.set.id = x.id
                    /\ h.exercise = x.exercise_id
                    /\ ReadsAsPosted(h.set)

HistoryHoldsLogged ==
    \E s \in client.history.result :
        /\ s.id = client.response.session_id
        /\ \E e \in s.exercises :
              /\ e.id = client.response.exercise_id
              /\ e.exercise_name = "Bench Press"
              /\ {r.id : r \in e.sets} =
                    {client.response.sets_created[k] :
                        k \in 1..Len(client.response.sets_created)}
              /\ Cardinality(e.sets) = Len(parsed.sets)

\* the history holds no session of a user other than the one asked for
HistoryOfUserOnly ==
    \A s \in client.history.result : s.user_id = client.history.user_id

\* C22: after parse_workout and log_workout (no session id) succeeded for user U,
\* get_workout_sessions filtered by U returns the session of the response with
\* the new exercise and exactly its N sets, and no session of another user
C22_ReadAfterWrite ==
    client.history.pc = "done" => (HistoryHoldsLogged /\ HistoryOfUserOnly)

\* what holds for every user id: the logged rows are in the history
C22_LoggedRowsRead ==
    client.history.pc = "done" => HistoryHoldsLogged

\* what holds for a user id that is not empty
C22_NonEmptyUser ==
    (client.history.pc = "done" /\ client.history.user_id # EmptyUser) =>
        (HistoryHoldsLogged /\ HistoryOfUserOnly)

\* the pipeline ran for the empty user id and read the history
C22_Witness ==
    /\ client.history.pc = "done"
    /\ client.history.user_id = EmptyUser
    /\ Len(client.response.sets_created) = 2

(***************************************************************************)
(* Exits of log_workout.                                                   *)
(***************************************************************************)
\* the writes a request asks for: a session if none is given, the exercise, the sets
WritesAsked(req) == (IF req.session_id = NoId THEN 1 ELSE 0) + 1 + Len(req.sets)

\* invocation p gets its answer in this step
AnsweredNow(p) == inv[p].pc # "close" /\ inv'[p].pc = "close"

C23_Step ==
    \A p \in Procs :
        \* an error reaches the caller from the except clause only, after db.rollback()
        /\ (AnsweredNow(p) /\ inv'[p].status # 200) => inv[p].pc = "rollback"
        \* a success is answered from the end of the try block, every write made
        /\ (AnsweredNow(p) /\ inv'[p].status = 200) =>
              /\ inv[p].pc = "sets"
              /\ Len(inv[p].written) = WritesAsked(inv[p].request)
        \* a failure enters the except clause with an error status
        /\ (inv[p].pc # "rollback" /\ inv'[p].pc = "rollback") =>
              inv'[p].status \in {404, 500}
        \* a rollback that was started ends in the error, never in a success
        /\ inv[p].pc = "rollback" =>
              \/ inv'[p] = inv[p]
              \/ inv'[p] = [inv[p] EXCEPT !.pc = "close"]

\* C23: in log_workout a failure is followed by a rollback, which is over before
\* the error reaches the caller; success is never answered on a path that started
\* a rollback or on which a write failed
C23_RollbackBeforeError == [][C23_Step]_vars

\* the second of two sets failed: the error was answered after the rollback
C23_Witness ==
    /\ inv["p1"].pc = "close"
    /\ inv["p1"].status = 500
    /\ Len(inv["p1"].request.sets) = 2
    /\ Len(inv["p1"].sets_created) = 1

(***************************************************************************)
(* The store session of an invocation: checked out by Depends(get_db) when *)
(* the request is accepted, held until get_db closes it.                   *)
(***************************************************************************)
CheckedOut(p) == inv[p].pc # "idle"

C24_Step ==
    \A p \in Procs :
        \* the session is let go only by get_db's close, after the answer
        /\ (CheckedOut(p) /\ inv'[p].pc = "idle") => inv[p].pc = "close"
        \* and with that the invocation is over: nothing of it is left to close again
        /\ (inv[p].pc = "close" /\ inv'[p] # inv[p]) => inv'[p] = Idle

\* C24: the store session that get_db hands to an invocation is closed once, on
\* every way out (success, not found, failed write and rollback), and none stays
\* checked out when the invocation has ended
C24_ReleasedOnEveryExit ==
    /\ [][C24_Step]_vars
    /\ \A p \in {"p1"} : \A status \in {200, 404, 500} :
          (inv[p].pc = "close" /\ inv[p].status = status) ~> ~CheckedOut(p)
    /\ \A p \in {"p1"} : CheckedOut(p) ~> ~CheckedOut(p)

\* an invocation that failed in the set loop has been answered and holds its session
C24_Witness ==
    /\ inv["p1"].pc = "close"
    /\ inv["p1"].status = 500
    /\ inv["p1"].request.session_id = EarlierId
    /\ Len(inv["p1"].written) = 2

(***************************************************************************)
(* Two invocations into the same session.                                  *)
(***************************************************************************)
\* the exercise of invocation p is stored with exactly the sets of p's request
OwnSets(p) ==
    LET r == inv[p]
        n == Len(r.request.sets)
    IN /\ NewExercise(r.exercise_id, r.request.session_id, r.request.exercise_name)
             \in exercises
       /\ Len(r.sets_created) = n
       /\ SetsOf(r.exercise_id) =
             {LoggedSet(r.sets_created[k], r.exercise_id, r.request.sets[k]) : k \in 1..n}
       /\ Cardinality(SetsOf(r.exercise_id)) = n

\* when both have succeeded, both exercises are stored, each with its own sets
C25_OwnSets ==
    \A p, q \in Procs :
        (p # q /\ Succeeded(p) /\ Succeeded(q)) =>
            /\ inv[p].exercise_id # inv[q].exercise_id
            /\ OwnSets(p)
            /\ OwnSets(q)

\* no invocation waits while the other is being served
C25_NeitherWaits ==
    \A p, q \in Procs : ~(inv[p].pc = "waiting" /\ Running(q))

\* C25: two log_workout invocations for the same user and the same existing
\* session may interleave at any step; when both succeed the store holds both
\* exercises, each with exactly the sets of its own invocation, and neither
\* invocation waits for the other
C25_InterleaveFreely == C25_OwnSets /\ C25_NeitherWaits

\* both invocations succeeded, each with a set of its own
C25_Witness ==
    /\ Succeeded("p1") /\ Succeeded("p2")
    /\ Len(inv["p1"].request.sets) = 1
    /\ Len(inv["p2"].request.sets) = 1
    /\ inv["p1"].request.sets # inv["p2"].request.sets

(***************************************************************************)
(* log_workout into a session that exists.                                 *)
(***************************************************************************)
C26_Step ==
    \A p \in Procs :
        LET r == inv[p]
            req == r.request
        IN (r.pc # "idle" /\ inv'[p] # r /\ req.session_id # NoId) =>
              \* no session row is added, removed or changed
              /\ sessions' = sessions
              \* the rows that were there stay as they are
              /\ exercises \subseteq exercises'
              /\ sets \subseteq sets'
              \* what is added is the one exercise of the request, under that session
              /\ \A e \in exercises' \ exercises :
                    /\ r.pc = "exercise"
                    /\ e = NewExercise(inv'[p].exercise_id, req.session_id, req.exercise_name)
              \* and the sets of the request, under that exercise
              /\ \A x \in sets' \ sets :
                    /\ r.pc = "sets"
                    /\ x = LoggedSet(x.id, r.exercise_id, req.sets[Len(r.sets_created) + 1])

\* C26: log_workout into an existing owned session leaves every row that was
\* there unchanged (the session with its notes, the earlier exercises and sets);
\* the only difference in the store is one new exercise with the given name and
\* its new sets
C26_ExistingRowsUntouched ==
    /\ [][C26_Step]_vars
    /\ [](\A p \in Procs :
            (Succeeded(p) /\ inv[p].request.session_id # NoId) =>
                /\ Len(inv[p].written) = 1 + Len(inv[p].request.sets)
                /\ inv[p].written[1] = Wrote("exercise", inv[p].exercise_id)
                /\ \A k \in 2..Len(inv[p].written) : inv[p].written[k].table = "set")

\* a success with two sets into the caller's earlier session, whose rows are there
C26_Witness ==
    /\ Succeeded("p1")
    /\ inv["p1"].request.session_id = EarlierId
    /\ Len(inv["p1"].sets_created) = 2
    /\ SeedSessions \subseteq sessions
    /\ SeedExercises \subseteq exercises
    /\ SeedSets \subseteq sets

(***************************************************************************)
(* What the validation loop of parse_workout changes.                      *)
(***************************************************************************)
\* a set_number that is missing, not an integer, or < 1, as JSON types it
NotAnIntegerFromOne(val) == val.t # "int" \/ val.v < 1

\* reps, weight, and the number and order of the sets are as decoded
SetsOtherwiseAsDecoded ==
    /\ Len(Answer.sets) = Len(Output.sets)
    /\ \A k \in 1..Len(Answer.sets) :
          /\ Answer.sets[k].reps = Output.sets[k].reps
          /\ Answer.sets[k].weight = Output.sets[k].weight

\* C27: the validation step of parse_workout changes set_number fields only, and
\* only those that are missing, not an integer or < 1, which become i + 1 (i the
\* 0-based index); a valid set_number, every reps and weight and the number and
\* order of the sets are returned as decoded
C27_OnlyInvalidSetNumbersChange ==
    (Parsed /\ Answer.status = 200) =>
        /\ SetsOtherwiseAsDecoded
        /\ \A k \in 1..Len(Answer.sets) :
              Answer.sets[k].set_number =
                 (IF NotAnIntegerFromOne(Output.sets[k].set_number)
                  THEN IntV(k) ELSE Output.sets[k].set_number)

\* what the loop does: it changes nothing but the set_number fields it tests as
\* invalid, and JSON true passes that test
C27_OnlyTestedSetNumbersChange ==
    (Parsed /\ Answer.status = 200) =>
        /\ SetsOtherwiseAsDecoded
        /\ \A k \in 1..Len(Answer.sets) :
              Answer.sets[k].set_number =
                 (IF SetNumberInvalid(Get(Output.sets[k].set_number))
                  THEN IntV(k) ELSE Output.sets[k].set_number)

\* a structure was returned whose second set_number was true and still is
C27_Witness ==
    /\ Parsed /\ Answer.status = 200
    /\ Len(Output.sets) = 2
    /\ Output.sets[2].set_number = BoolV(1)
    /\ Answer.sets[2].set_number = BoolV(1)

(***************************************************************************)
(* What a failed log_workout leaves behind.                                *)
(***************************************************************************)
\* the exercise row of invocation p is stored
ExerciseLeft(p) == inv[p].exercise_id # NoId /\ inv[p].exercise_id \in ExerciseIds

\* the set row for input position k of invocation p is stored
SetLeft(p, k) == k <= Len(inv[p].sets_created) /\ inv[p].sets_created[k] \in SetIds

C28_PrefixLeft(p) ==
    LET r == inv[p]
    IN \* the exercise only with its session
       /\ ExerciseLeft(p) =>
             /\ r.session_id \in SessionIds
             /\ NewExercise(r.exercise_id, r.session_id, r.request.exercise_name) \in exercises
       \* the k-th set only with the exercise and with every set before it
       /\ \A k \in 1..Len(r.request.sets) :
             SetLeft(p, k) =>
                /\ ExerciseLeft(p)
                /\ \A j \in 1..k :
                      /\ SetLeft(p, j)
                      /\ LoggedSet(r.sets_created[j], r.exercise_id, r.request.sets[j]) \in sets

\* C28: whatever step of log_workout fails, the rows the invocation leaves in the
\* store are a prefix of the hierarchy: the new exercise only if its session is
\* there, the set of input position k only if the exercise and the sets of all
\* positions before k are there
C28_FailureLeavesPrefix == \A p \in Procs : Failed(p) => C28_PrefixLeft(p)

\* the second set of a request without session id failed: the new session, the
\* exercise and the first set are left
C28_Witness ==
    /\ Failed("p1")
    /\ inv["p1"].request.session_id = NoId
    /\ Len(inv["p1"].request.sets) = 2
    /\ Len(inv["p1"].written) = 3
    /\ LeftBy("p1") = {1, 2, 3}

(***************************************************************************)
(* set_number of the rows log_workout stores.                              *)
(***************************************************************************)
\* the stored row of the k-th set of invocation p, if it is still there
RowOf(p, k) == {x \in sets : x.id = inv[p].sets_created[k]}

\* C29: log_workout stores an entry without set_number with set_number 1 whatever
\* its position in the list (several such entries give several sets numbered 1
\* under one exercise), and an entry with a set_number with that value unchanged
C29_SetNumberDefaultsToOne ==
    \A p \in Procs :
        \A k \in 1..Len(inv[p].sets_created) :
            \A x \in RowOf(p, k) :
                LET given == inv[p].request.sets[k].set_number
                IN /\ x.exercise_id = inv[p].exercise_id
                   /\ given = Missing => x.set_number = IntV(1)
                   /\ given # Missing => x.set_number = given

\* two entries without set_number were stored as two sets numbered 1 under one exercise
C29_Witness ==
    /\ Succeeded("p1")
    /\ Len(inv["p1"].request.sets) = 2
    /\ \A k \in 1..2 : inv["p1"].request.sets[k].set_number = Missing
    /\ \E x, y \in SetsOf(inv["p1"].exercise_id) :
          /\ x.id # y.id
          /\ x.set_number = IntV(1)
          /\ y.set_number = IntV(1)

====
